---- MODULE Spec2Model ----
(***************************************************************************)
(* The playback queue of Listen-to-the-Music (src/Queue.py) with the track *)
(* value object it stores (src/Track.py) and the JSON state file it reads  *)
(* and writes.  The queue is a doubly-linked list of heap nodes; a node is *)
(* addressed by its index in queue.nodes, and 0 stands for Python's None.  *)
(***************************************************************************)
EXTENDS Integers, Sequences, FiniteSets, TLC

VARIABLES
    catalog,     \* the tracks the library, its albums and playlists can hand to the queue
    queue,       \* the Queue object: its private attributes and the nodes it can reach
    stateFile,   \* contents of storage/queue_state.json, or NoFile
    lastOp,      \* name of the method called last
    lastArg,     \* the track handed to addTrack, or the list QueuePlaylist hands to
                 \* loadTracks, as a one-element tuple
    lastResult,  \* its return value
    runStart,    \* position of the active node when the current run of advanceToNext calls began
    runLen,      \* number of advanceToNext calls made in a row, up to RunCap
    shuffledFrom, \* the sequence a shuffleQueue call reordered, kept while that call is
                  \* the last one or is followed at once by restoreOriginalOrder; else <<>>
    origBefore,   \* originalSequence as the last call found it
    lastWrite,    \* what became of the write of the last call: "none" attempted, "ok" or "failed"
    positionBefore, \* zero-based position of the active node as the last call found it, or -1
    printed,      \* what the last call, if it was showQueue, wrote to the terminal
    rewoundAdvance \* the last call was rewindToPrevious, made right after an
                   \* advanceToNext that returned a track

vars == <<catalog, queue, stateFile, lastOp, lastArg, lastResult, runStart, runLen,
          shuffledFrom, origBefore, lastWrite, positionBefore, printed,
          rewoundAdvance>>

\* ------------------------------------------------------------------ bounds
MaxSize == 4      \* a track is added only while the queue and its original order hold fewer
MaxLoad == 2      \* longest list handed to loadTracks
MaxAlbum == 12    \* most tracks on the album QueueAlbum hands to loadTracks
MaxPage == 2      \* largest page number handed to showQueue

RunCap == MaxSize + 2

\* storage/queue_state.json: absent, or holding the JSON document json
NoFile == [exists |-> FALSE]
FileWith(json) == [exists |-> TRUE, json |-> json]
\* a file whose text is not JSON, such as one cut short
Unparseable == [exists |-> TRUE]
NoArg == <<>>
\* nothing written by showQueue
Silent == [lines |-> "none"]

\* return values: None, a bool or a track reference; or an exception leaving the method
RetNone == [kind |-> "None"]
RetRaised == [kind |-> "raise"]
RetBool(b) == [kind |-> "bool", val |-> b]
RetTrack(t) == [kind |-> "track", val |-> t]
RetInt(n) == [kind |-> "int", val |-> n]
RetStr(s) == [kind |-> "str", val |-> s]

\* ------------------------------------------------------------------ Track.py
StrArtist(s) == [kind |-> "str", val |-> s]
ListArtist(l) == [kind |-> "list", val |-> l]

Track(title, artist, album, duration) ==
    [trackTitle |-> title, trackArtist |-> artist,
     trackAlbum |-> album, trackDuration |-> duration]

\* the track objects of the model: T2 is T1 in another letter case, and T4 names
\* as one string what T3 names as a list of two artists
T1 == Track("song", StrArtist("abba"), "gold", "3:05")
T2 == Track("Song", StrArtist("abba"), "gold", "3:05")
T3 == Track("tune", ListArtist(<<"abba", "cher">>), "duo", "4:10")
T4 == Track("tune", StrArtist("['abba', 'cher']"), "duo", "4:10")

Tracks == {T1, T2, T3, T4}

\* the smaller library used where the state file and the queue evolve apart
PersistCatalog == {T1, T2, T3}

\* two tracks for the runs in which the state file is damaged or a write fails
SmallCatalog == {T1, T3}

\* four tracks no two of which are equal, for queues of four
T5 == Track("waltz", StrArtist("Cher"), "duo", "59:59")
OrderCatalog == {T1, T2, T3, T5}

\* str.lower() on the strings that occur in Tracks
Lower(s) ==
    CASE s = "Song" -> "song"
      [] s = "Cher" -> "cher"
      [] OTHER -> s

RECURSIVE JoinQuoted(_)
JoinQuoted(l) ==
    IF Len(l) = 0 THEN ""
    ELSE IF Len(l) = 1 THEN "'" \o l[1] \o "'"
    ELSE "'" \o l[1] \o "', " \o JoinQuoted(Tail(l))

\* str(artist): a string is itself, a list is its Python repr
StrOf(artist) ==
    IF artist.kind = "str" THEN artist.val
    ELSE "[" \o JoinQuoted(artist.val) \o "]"

TrackEq(a, b) ==
    /\ a.trackTitle = b.trackTitle
    /\ StrOf(a.trackArtist) = StrOf(b.trackArtist)
    /\ a.trackAlbum = b.trackAlbum
    /\ a.trackDuration = b.trackDuration

toDict(t) ==
    [title |-> t.trackTitle, artist |-> t.trackArtist,
     album |-> t.trackAlbum, duration |-> t.trackDuration]

fromDict(d) ==
    Track(d.title, d.artist, d.album, d.duration)

\* ------------------------------------------------------------------ heap of nodes
LinkedListNode(track) ==
    [trackData |-> track, nextNode |-> 0, prevNode |-> 0]

RECURSIVE WalkFrom(_, _, _)
\* the node ids met by "while node: ...; node = node.nextNode" starting at id
WalkFrom(nodes, id, fuel) ==
    IF id = 0 \/ fuel = 0 THEN <<>>
    ELSE <<id>> \o WalkFrom(nodes, nodes[id].nextNode, fuel - 1)

Chain(q) == WalkFrom(q.nodes, q.headNode, Len(q.nodes))

\* the track references head -> tail
TracksOf(q) ==
    LET ch == Chain(q)
    IN [i \in 1..Len(ch) |-> q.nodes[ch[i]].trackData]

Range(s) == {s[i] : i \in 1..Len(s)}

RECURSIVE SortedSeq(_)
SortedSeq(S) ==
    IF S = {} THEN <<>>
    ELSE LET m == CHOOSE x \in S : \A y \in S : x <= y
         IN <<m>> \o SortedSeq(S \ {m})

RECURSIVE Closure(_, _)
Closure(nodes, S) ==
    LET S2 == (S \cup {nodes[i].nextNode : i \in S}
                 \cup {nodes[i].prevNode : i \in S}) \ {0}
    IN IF S2 = S THEN S ELSE Closure(nodes, S2)

IndexIn(s, x) == CHOOSE i \in 1..Len(s) : s[i] = x

\* Python keeps exactly the nodes the Queue can still reach; node identity
\* carries no meaning beyond equality, so the live nodes are renumbered:
\* the list from the head first, then any other live node.
Normalize(q) ==
    LET main == Chain(q)
        live == Closure(q.nodes, {q.headNode, q.tailNode, q.activeNode} \ {0})
        ord  == main \o SortedSeq(live \ Range(main))
        ren(i) == IF i = 0 THEN 0 ELSE IndexIn(ord, i)
    IN IF main = [k \in 1..Len(q.nodes) |-> k] THEN q
       ELSE
       [q EXCEPT
          !.nodes = [k \in 1..Len(ord) |->
                       [trackData |-> q.nodes[ord[k]].trackData,
                        nextNode |-> ren(q.nodes[ord[k]].nextNode),
                        prevNode |-> ren(q.nodes[ord[k]].prevNode)]],
          !.headNode = ren(q.headNode),
          !.tailNode = ren(q.tailNode),
          !.activeNode = ren(q.activeNode)]

\* ------------------------------------------------------------------ Queue.py
NewQueue ==
    [nodes |-> <<>>, headNode |-> 0, tailNode |-> 0, activeNode |-> 0,
     queueSize |-> 0, shuffleEnabled |-> FALSE, repeatEnabled |-> FALSE,
     playbackActive |-> FALSE, originalSequence |-> <<>>]

\* the scan comparing object identity instead of calling Track.__eq__
IsDuplicateExact(q, track) ==
    LET ts == TracksOf(q)
    IN \E i \in 1..Len(ts) : ts[i] = track

\* the duplicate scan at the top of addTrack
IsDuplicate(q, track) ==
    LET ts == TracksOf(q)
    IN \E i \in 1..Len(ts) : TrackEq(ts[i], track)

\* "walk to the last node and link the new node behind it"
LinkAtEnd(q, track) ==
    LET n == Len(q.nodes) + 1
        withNode == Append(q.nodes, LinkedListNode(track))
    IN IF q.headNode = 0
       THEN [q EXCEPT !.nodes = withNode, !.headNode = n, !.tailNode = n]
       ELSE LET ch == Chain(q)
                last == ch[Len(ch)]
            IN [q EXCEPT
                  !.nodes = [withNode EXCEPT ![last].nextNode = n,
                                             ![n].prevNode = last],
                  !.tailNode = n]

\* addTrack putting the cursor on the node it links
addTrackMovesCursor(q, track) ==
    IF IsDuplicate(q, track)
    THEN [q |-> q, ret |-> FALSE]
    ELSE LET linked == LinkAtEnd(q, track)
             placed == [linked EXCEPT !.activeNode = linked.tailNode]
             counted == [placed EXCEPT !.queueSize = Len(Chain(placed))]
         IN [q |-> IF ~q.shuffleEnabled
                   THEN [counted EXCEPT !.originalSequence = Append(@, track)]
                   ELSE counted,
             ret |-> TRUE]

\* addTrack recording the track in originalSequence whatever the shuffle flag
addTrackAlwaysRecords(q, track) ==
    IF IsDuplicate(q, track)
    THEN [q |-> q, ret |-> FALSE]
    ELSE LET linked == LinkAtEnd(q, track)
             placed == IF q.headNode = 0
                       THEN [linked EXCEPT !.activeNode = linked.headNode]
                       ELSE linked
             counted == [placed EXCEPT !.queueSize = Len(Chain(placed))]
         IN [q |-> [counted EXCEPT !.originalSequence = Append(@, track)],
             ret |-> TRUE]

addTrack(q, track) ==
    IF IsDuplicate(q, track)
    THEN [q |-> q, ret |-> FALSE]
    ELSE LET linked == LinkAtEnd(q, track)
             placed == IF q.headNode = 0
                       THEN [linked EXCEPT !.activeNode = linked.headNode]
                       ELSE linked
             counted == [placed EXCEPT !.queueSize = Len(Chain(placed))]
         IN [q |-> IF ~q.shuffleEnabled
                   THEN [counted EXCEPT !.originalSequence = Append(@, track)]
                   ELSE counted,
             ret |-> TRUE]

\* one iteration of the rebuild loops of shuffleQueue and restoreOriginalOrder
AppendCounted(q, track) ==
    [LinkAtEnd(q, track) EXCEPT !.queueSize = @ + 1]

RECURSIVE AppendAll(_, _)
AppendAll(q, tracks) ==
    IF Len(tracks) = 0 THEN q
    ELSE AppendAll(AppendCounted(q, Head(tracks)), Tail(tracks))

\* zero-based position of the active node in the list from the head, -1 if it is not met
ActivePosition(q) ==
    LET ch == Chain(q)
    IN IF \E i \in 1..Len(ch) : ch[i] = q.activeNode
       THEN IndexIn(ch, q.activeNode) - 1
       ELSE -1

saveQueueState(q) ==
    [tracks |-> LET ts == TracksOf(q) IN [i \in 1..Len(ts) |-> toDict(ts[i])],
     current_index |-> ActivePosition(q),
     is_shuffled |-> q.shuffleEnabled,
     is_repeat |-> q.repeatEnabled,
     is_playing |-> q.playbackActive,
     original_order |-> [i \in 1..Len(q.originalSequence) |->
                            toDict(q.originalSequence[i])]]

RECURSIVE loadTracksInto(_, _)
\* the for loop of loadTracks
loadTracksInto(q, trackCollection) ==
    IF Len(trackCollection) = 0 THEN q
    ELSE loadTracksInto(addTrack(q, Head(trackCollection)).q, Tail(trackCollection))

\* loadTracks without the saveQueueState call that ends it
loadTracksUnsaved(q, trackCollection) ==
    [q |-> loadTracksInto(q, trackCollection), ret |-> RetNone, save |-> FALSE]

loadTracks(q, trackCollection) ==
    [q |-> loadTracksInto(q, trackCollection), ret |-> RetNone, save |-> TRUE]

\* startPlayback without the move from the tail back to the head
startPlaybackKeepsCursor(q) ==
    [q |-> [q EXCEPT !.playbackActive = TRUE], ret |-> RetNone, save |-> TRUE]

startPlayback(q) ==
    LET moved == IF ~q.repeatEnabled /\ q.activeNode = q.tailNode
                 THEN [q EXCEPT !.activeNode = q.headNode]
                 ELSE q
    IN [q |-> [moved EXCEPT !.playbackActive = TRUE], ret |-> RetNone, save |-> TRUE]

pausePlayback(q) ==
    [q |-> [q EXCEPT !.playbackActive = FALSE], ret |-> RetNone, save |-> TRUE]

\* advanceToNext leaving playbackActive alone at the end of the queue
advanceToNextKeepsPlaying(q) ==
    IF q.activeNode = 0
    THEN [q |-> q, ret |-> RetNone, save |-> FALSE]
    ELSE IF q.nodes[q.activeNode].nextNode # 0
    THEN LET n == q.nodes[q.activeNode].nextNode
         IN [q |-> [q EXCEPT !.activeNode = n],
             ret |-> RetTrack(q.nodes[n].trackData), save |-> TRUE]
    ELSE IF q.repeatEnabled
    THEN [q |-> [q EXCEPT !.activeNode = q.headNode],
          ret |-> IF q.headNode = 0 THEN RetNone
                  ELSE RetTrack(q.nodes[q.headNode].trackData),
          save |-> TRUE]
    ELSE [q |-> q, ret |-> RetNone, save |-> TRUE]

\* advanceToNext returning from the end of the queue before saveQueueState
advanceToNextEndUnsaved(q) ==
    IF q.activeNode = 0
    THEN [q |-> q, ret |-> RetNone, save |-> FALSE]
    ELSE IF q.nodes[q.activeNode].nextNode # 0
    THEN LET n == q.nodes[q.activeNode].nextNode
         IN [q |-> [q EXCEPT !.activeNode = n],
             ret |-> RetTrack(q.nodes[n].trackData), save |-> TRUE]
    ELSE IF q.repeatEnabled
    THEN [q |-> [q EXCEPT !.activeNode = q.headNode],
          ret |-> IF q.headNode = 0 THEN RetNone
                  ELSE RetTrack(q.nodes[q.headNode].trackData),
          save |-> TRUE]
    ELSE [q |-> [q EXCEPT !.playbackActive = FALSE], ret |-> RetNone, save |-> FALSE]

\* advanceToNext going from the tail to the head whatever the repeat flag
advanceToNextAlwaysWraps(q) ==
    IF q.activeNode = 0
    THEN [q |-> q, ret |-> RetNone, save |-> FALSE]
    ELSE LET n == IF q.nodes[q.activeNode].nextNode # 0
                  THEN q.nodes[q.activeNode].nextNode
                  ELSE q.headNode
         IN [q |-> [q EXCEPT !.activeNode = n],
             ret |-> RetTrack(q.nodes[n].trackData), save |-> TRUE]

\* advanceToNext stopping at the tail whatever the repeat flag
advanceToNextNeverWraps(q) ==
    IF q.activeNode = 0
    THEN [q |-> q, ret |-> RetNone, save |-> FALSE]
    ELSE IF q.nodes[q.activeNode].nextNode # 0
    THEN LET n == q.nodes[q.activeNode].nextNode
         IN [q |-> [q EXCEPT !.activeNode = n],
             ret |-> RetTrack(q.nodes[n].trackData), save |-> TRUE]
    ELSE [q |-> [q EXCEPT !.playbackActive = FALSE], ret |-> RetNone, save |-> TRUE]

\* advanceToNext going back to the head from the tail with repeat off
advanceToNextRestarts(q) ==
    IF q.activeNode = 0
    THEN [q |-> q, ret |-> RetNone, save |-> FALSE]
    ELSE IF q.nodes[q.activeNode].nextNode # 0
    THEN LET n == q.nodes[q.activeNode].nextNode
         IN [q |-> [q EXCEPT !.activeNode = n],
             ret |-> RetTrack(q.nodes[n].trackData), save |-> TRUE]
    ELSE IF q.repeatEnabled
    THEN [q |-> [q EXCEPT !.activeNode = q.headNode],
          ret |-> IF q.headNode = 0 THEN RetNone
                  ELSE RetTrack(q.nodes[q.headNode].trackData),
          save |-> TRUE]
    ELSE [q |-> [q EXCEPT !.playbackActive = FALSE, !.activeNode = q.headNode],
          ret |-> RetNone, save |-> TRUE]

advanceToNext(q) ==
    IF q.activeNode = 0
    THEN [q |-> q, ret |-> RetNone, save |-> FALSE]
    ELSE IF q.nodes[q.activeNode].nextNode # 0
    THEN LET n == q.nodes[q.activeNode].nextNode
         IN [q |-> [q EXCEPT !.activeNode = n],
             ret |-> RetTrack(q.nodes[n].trackData), save |-> TRUE]
    ELSE IF q.repeatEnabled
    THEN [q |-> [q EXCEPT !.activeNode = q.headNode],
          ret |-> IF q.headNode = 0 THEN RetNone
                  ELSE RetTrack(q.nodes[q.headNode].trackData),
          save |-> TRUE]
    ELSE [q |-> [q EXCEPT !.playbackActive = FALSE], ret |-> RetNone, save |-> TRUE]

\* rewindToPrevious without the jump to the tail
rewindToPreviousNoWrap(q) ==
    IF q.activeNode = 0
    THEN [q |-> q, ret |-> RetNone, save |-> FALSE]
    ELSE LET a == IF q.nodes[q.activeNode].prevNode # 0
                  THEN q.nodes[q.activeNode].prevNode
                  ELSE q.activeNode
         IN [q |-> [q EXCEPT !.activeNode = a],
             ret |-> RetTrack(q.nodes[a].trackData), save |-> TRUE]

\* rewindToPrevious jumping from the head to the tail whatever the repeat flag
rewindToPreviousAlwaysWraps(q) ==
    IF q.activeNode = 0
    THEN [q |-> q, ret |-> RetNone, save |-> FALSE]
    ELSE LET a == IF q.nodes[q.activeNode].prevNode # 0
                  THEN q.nodes[q.activeNode].prevNode
                  ELSE q.tailNode
         IN [q |-> [q EXCEPT !.activeNode = a],
             ret |-> IF a = 0 THEN RetNone ELSE RetTrack(q.nodes[a].trackData),
             save |-> TRUE]

\* rewindToPrevious switching repeat off once it has jumped to the tail
rewindToPreviousWrapsOnce(q) ==
    IF q.activeNode = 0
    THEN [q |-> q, ret |-> RetNone, save |-> FALSE]
    ELSE LET wraps == q.nodes[q.activeNode].prevNode = 0 /\ q.repeatEnabled
             a == IF q.nodes[q.activeNode].prevNode # 0
                  THEN q.nodes[q.activeNode].prevNode
                  ELSE IF q.repeatEnabled THEN q.tailNode
                  ELSE q.activeNode
         IN [q |-> [q EXCEPT !.activeNode = a,
                             !.repeatEnabled = IF wraps THEN FALSE ELSE @],
             ret |-> IF a = 0 THEN RetNone ELSE RetTrack(q.nodes[a].trackData),
             save |-> TRUE]

\* rewindToPrevious going back two nodes where there are two
rewindToPreviousTwice(q) ==
    IF q.activeNode = 0
    THEN [q |-> q, ret |-> RetNone, save |-> FALSE]
    ELSE LET p == q.nodes[q.activeNode].prevNode
             a == IF p # 0
                  THEN IF q.nodes[p].prevNode # 0 THEN q.nodes[p].prevNode ELSE p
                  ELSE IF q.repeatEnabled THEN q.tailNode
                  ELSE q.activeNode
         IN [q |-> [q EXCEPT !.activeNode = a],
             ret |-> IF a = 0 THEN RetNone ELSE RetTrack(q.nodes[a].trackData),
             save |-> TRUE]

rewindToPrevious(q) ==
    IF q.activeNode = 0
    THEN [q |-> q, ret |-> RetNone, save |-> FALSE]
    ELSE LET a == IF q.nodes[q.activeNode].prevNode # 0
                  THEN q.nodes[q.activeNode].prevNode
                  ELSE IF q.repeatEnabled THEN q.tailNode
                  ELSE q.activeNode
         IN [q |-> [q EXCEPT !.activeNode = a],
             ret |-> IF a = 0 THEN RetNone ELSE RetTrack(q.nodes[a].trackData),
             save |-> TRUE]

\* all orders random.shuffle can leave a list in
PermSeqs(s) ==
    {[i \in 1..Len(s) |-> s[p[i]]] : p \in Permutations(1..Len(s))}

\* the elements of s at the positions in keep, in list order
SelectPos(s, keep) ==
    LET RECURSIVE Sel(_)
        Sel(i) == IF i > Len(s) THEN <<>>
                  ELSE IF i \in keep THEN <<s[i]>> \o Sel(i + 1)
                  ELSE Sel(i + 1)
    IN Sel(1)

\* tracks at positions before the active node
precedingTracks(q) ==
    LET activePosition == ActivePosition(q)
        ts == TracksOf(q)
    IN SelectPos(ts, {i \in 1..Len(ts) : i - 1 < activePosition})

\* the split taking the active track into the part to shuffle (>= for >)
followingTracksFromActive(q) ==
    LET activePosition == ActivePosition(q)
        ts == TracksOf(q)
    IN SelectPos(ts, {i \in 1..Len(ts) : i - 1 >= activePosition})

\* tracks at positions after the active node
followingTracks(q) ==
    LET activePosition == ActivePosition(q)
        ts == TracksOf(q)
    IN SelectPos(ts, {i \in 1..Len(ts) : i - 1 > activePosition})

\* shuffleQueue past its two early returns, with the order random.shuffle produced
shuffleRebuild(q, shuffledFollowing) ==
    LET captured == IF Len(q.originalSequence) = 0
                    THEN [q EXCEPT !.originalSequence = TracksOf(q)]
                    ELSE q
        cleared == [captured EXCEPT !.headNode = 0, !.tailNode = 0, !.queueSize = 0]
        withPreceding == AppendAll(cleared, precedingTracks(q))
        withActive == IF q.activeNode # 0
                      THEN LET a == AppendCounted(withPreceding,
                                                  q.nodes[q.activeNode].trackData)
                           IN [a EXCEPT !.activeNode = a.tailNode]
                      ELSE withPreceding
        withFollowing == AppendAll(withActive, shuffledFollowing)
        defaulted == IF withFollowing.activeNode = 0
                     THEN [withFollowing EXCEPT !.activeNode = withFollowing.headNode]
                     ELSE withFollowing
    IN [defaulted EXCEPT !.shuffleEnabled = TRUE]

\* shuffleQueue without the return on a queue that is already shuffled
shuffleQueueAgain(q) ==
    IF q.queueSize <= 1
    THEN {[q |-> q, ret |-> RetNone, save |-> FALSE]}
    ELSE {[q |-> shuffleRebuild(q, f), ret |-> RetNone, save |-> TRUE] :
             f \in PermSeqs(followingTracks(q))}

\* every outcome of shuffleQueue
shuffleQueue(q) ==
    IF q.shuffleEnabled \/ q.queueSize <= 1
    THEN {[q |-> q, ret |-> RetNone, save |-> FALSE]}
    ELSE {[q |-> shuffleRebuild(q, f), ret |-> RetNone, save |-> TRUE] :
             f \in PermSeqs(followingTracks(q))}

\* the scan of restoreOriginalOrder finding no track in originalSequence
newlyAddedTracksAll(q) ==
    TracksOf(q)

\* the scan of restoreOriginalOrder finding every track in originalSequence
newlyAddedTracksNone(q) ==
    <<>>

\* tracks of the current list that have no equal in originalSequence
newlyAddedTracks(q) ==
    LET ts == TracksOf(q)
    IN SelectPos(ts, {i \in 1..Len(ts) :
                         ~\E j \in 1..Len(q.originalSequence) :
                             TrackEq(ts[i], q.originalSequence[j])})

\* restoreOriginalOrder dropping the flag without rebuilding the list
restoreOriginalOrderFlagOnly(q) ==
    IF ~q.shuffleEnabled
    THEN [q |-> q, ret |-> RetNone, save |-> FALSE]
    ELSE [q |-> [q EXCEPT !.shuffleEnabled = FALSE], ret |-> RetNone, save |-> TRUE]

\* restoreOriginalOrder emptying originalSequence once the list is rebuilt
restoreOriginalOrderForgetsOrder(q) ==
    IF ~q.shuffleEnabled
    THEN [q |-> q, ret |-> RetNone, save |-> FALSE]
    ELSE LET added == newlyAddedTracks(q)
             allTracks == q.originalSequence \o added
             cleared == [q EXCEPT !.headNode = 0, !.tailNode = 0, !.queueSize = 0]
             rebuilt == [AppendAll(cleared, allTracks) EXCEPT
                            !.originalSequence = <<>>, !.activeNode = 0]
             ch == Chain(rebuilt)
             hits == IF q.activeNode = 0 THEN {}
                     ELSE {i \in 1..Len(ch) :
                             TrackEq(rebuilt.nodes[ch[i]].trackData,
                                     q.nodes[q.activeNode].trackData)}
             found == IF hits = {} THEN rebuilt.headNode
                      ELSE ch[CHOOSE i \in hits : \A j \in hits : i <= j]
         IN [q |-> [rebuilt EXCEPT !.activeNode = found, !.shuffleEnabled = FALSE],
             ret |-> RetNone, save |-> TRUE]

\* restoreOriginalOrder placing the cursor on the head without looking for the
\* active track
restoreOriginalOrderToHead(q) ==
    IF ~q.shuffleEnabled
    THEN [q |-> q, ret |-> RetNone, save |-> FALSE]
    ELSE LET added == newlyAddedTracks(q)
             allTracks == q.originalSequence \o added
             cleared == [q EXCEPT !.headNode = 0, !.tailNode = 0, !.queueSize = 0]
             rebuilt == [AppendAll(cleared, allTracks) EXCEPT
                            !.originalSequence = @ \o added, !.activeNode = 0]
         IN [q |-> [rebuilt EXCEPT !.activeNode = rebuilt.headNode,
                                   !.shuffleEnabled = FALSE],
             ret |-> RetNone, save |-> TRUE]

\* restoreOriginalOrder without the return on a queue that is not shuffled
restoreOriginalOrderAlways(q) ==
    LET added == newlyAddedTracks(q)
        allTracks == q.originalSequence \o added
        cleared == [q EXCEPT !.headNode = 0, !.tailNode = 0, !.queueSize = 0]
        rebuilt == [AppendAll(cleared, allTracks) EXCEPT
                       !.originalSequence = @ \o added, !.activeNode = 0]
        ch == Chain(rebuilt)
        hits == IF q.activeNode = 0 THEN {}
                ELSE {i \in 1..Len(ch) :
                        TrackEq(rebuilt.nodes[ch[i]].trackData,
                                q.nodes[q.activeNode].trackData)}
        found == IF hits = {} THEN rebuilt.headNode
                 ELSE ch[CHOOSE i \in hits : \A j \in hits : i <= j]
    IN [q |-> [rebuilt EXCEPT !.activeNode = found, !.shuffleEnabled = FALSE],
        ret |-> RetNone, save |-> TRUE]

\* restoreOriginalOrder leaving the tracks added since the shuffle out of
\* originalSequence
restoreOriginalOrderKeepsOldOrder(q) ==
    IF ~q.shuffleEnabled
    THEN [q |-> q, ret |-> RetNone, save |-> FALSE]
    ELSE LET added == newlyAddedTracks(q)
             allTracks == q.originalSequence \o added
             cleared == [q EXCEPT !.headNode = 0, !.tailNode = 0, !.queueSize = 0]
             rebuilt == [AppendAll(cleared, allTracks) EXCEPT !.activeNode = 0]
             ch == Chain(rebuilt)
             hits == IF q.activeNode = 0 THEN {}
                     ELSE {i \in 1..Len(ch) :
                             TrackEq(rebuilt.nodes[ch[i]].trackData,
                                     q.nodes[q.activeNode].trackData)}
             found == IF hits = {} THEN rebuilt.headNode
                      ELSE ch[CHOOSE i \in hits : \A j \in hits : i <= j]
         IN [q |-> [rebuilt EXCEPT !.activeNode = found, !.shuffleEnabled = FALSE],
             ret |-> RetNone, save |-> TRUE]

restoreOriginalOrder(q) ==
    IF ~q.shuffleEnabled
    THEN [q |-> q, ret |-> RetNone, save |-> FALSE]
    ELSE LET added == newlyAddedTracks(q)
             allTracks == q.originalSequence \o added
             cleared == [q EXCEPT !.headNode = 0, !.tailNode = 0, !.queueSize = 0]
             rebuilt == [AppendAll(cleared, allTracks) EXCEPT
                            !.originalSequence = @ \o added, !.activeNode = 0]
             ch == Chain(rebuilt)
             hits == IF q.activeNode = 0 THEN {}
                     ELSE {i \in 1..Len(ch) :
                             TrackEq(rebuilt.nodes[ch[i]].trackData,
                                     q.nodes[q.activeNode].trackData)}
             found == IF hits = {} THEN rebuilt.headNode
                      ELSE ch[CHOOSE i \in hits : \A j \in hits : i <= j]
         IN [q |-> [rebuilt EXCEPT !.activeNode = found, !.shuffleEnabled = FALSE],
             ret |-> RetNone, save |-> TRUE]

\* toggleRepeat returning the value repeatEnabled had before the flip
toggleRepeatReturnsOld(q) ==
    [q |-> [q EXCEPT !.repeatEnabled = ~q.repeatEnabled],
     ret |-> RetBool(q.repeatEnabled), save |-> TRUE]

toggleRepeat(q) ==
    [q |-> [q EXCEPT !.repeatEnabled = ~q.repeatEnabled],
     ret |-> RetBool(~q.repeatEnabled), save |-> TRUE]

\* clearQueue leaving originalSequence as it is
clearQueueKeepsOrder(q) ==
    [q |-> [q EXCEPT !.headNode = 0, !.tailNode = 0, !.activeNode = 0,
                     !.queueSize = 0, !.shuffleEnabled = FALSE,
                     !.repeatEnabled = FALSE, !.playbackActive = FALSE],
     ret |-> RetNone, save |-> TRUE]

clearQueue(q) ==
    [q |-> [q EXCEPT !.headNode = 0, !.tailNode = 0, !.activeNode = 0,
                     !.queueSize = 0, !.shuffleEnabled = FALSE,
                     !.repeatEnabled = FALSE, !.playbackActive = FALSE,
                     !.originalSequence = <<>>],
     ret |-> RetNone, save |-> TRUE]

\* the restore loop linking forward only, never assigning node.prevNode
LinkAtTailForwardOnly(q, track) ==
    LET n == Len(q.nodes) + 1
        withNode == Append(q.nodes, LinkedListNode(track))
    IN IF q.headNode = 0
       THEN [q EXCEPT !.nodes = withNode, !.headNode = n, !.tailNode = n,
                      !.queueSize = @ + 1]
       ELSE [q EXCEPT
               !.nodes = [withNode EXCEPT ![q.tailNode].nextNode = n],
               !.tailNode = n, !.queueSize = @ + 1]

\* the restore loop counting the first node only
LinkAtTailCountsHead(q, track) ==
    LET n == Len(q.nodes) + 1
        withNode == Append(q.nodes, LinkedListNode(track))
    IN IF q.headNode = 0
       THEN [q EXCEPT !.nodes = withNode, !.headNode = n, !.tailNode = n,
                      !.queueSize = @ + 1]
       ELSE [q EXCEPT
               !.nodes = [withNode EXCEPT ![q.tailNode].nextNode = n,
                                          ![n].prevNode = q.tailNode],
               !.tailNode = n]

\* one iteration of the restore loop of loadQueueState, which links behind the tail pointer
LinkAtTail(q, track) ==
    LET n == Len(q.nodes) + 1
        withNode == Append(q.nodes, LinkedListNode(track))
    IN IF q.headNode = 0
       THEN [q EXCEPT !.nodes = withNode, !.headNode = n, !.tailNode = n,
                      !.queueSize = @ + 1]
       ELSE [q EXCEPT
               !.nodes = [withNode EXCEPT ![q.tailNode].nextNode = n,
                                          ![n].prevNode = q.tailNode],
               !.tailNode = n, !.queueSize = @ + 1]

RECURSIVE RestoreTracks(_, _)
RestoreTracks(q, dicts) ==
    IF Len(dicts) = 0 THEN q
    ELSE RestoreTracks(LinkAtTail(q, fromDict(Head(dicts))), Tail(dicts))

RECURSIVE StepsFrom(_, _, _)
\* "for i in range(k): if node: node = node.nextNode"
StepsFrom(nodes, id, k) ==
    IF k = 0 \/ id = 0 THEN id
    ELSE StepsFrom(nodes, nodes[id].nextNode, k - 1)

\* Track.fromDict reads these four keys and raises KeyError when one is missing
TrackKeys == {"title", "artist", "album", "duration"}

RECURSIVE ReadablePrefix(_)
\* the entries a "for trackData in ..." loop converts before fromDict first raises
ReadablePrefix(dicts) ==
    IF Len(dicts) = 0 \/ ~(TrackKeys \subseteq DOMAIN Head(dicts)) THEN <<>>
    ELSE <<Head(dicts)>> \o ReadablePrefix(Tail(dicts))

\* the body of loadQueueState's try block on the parsed document stateData,
\* reading the original order under orderKey; an exception at any statement
\* leaves the assignments made before it and makes the method return False
restoreFrom(q, stateData, orderKey) ==
    LET has(key) == key \in DOMAIN stateData
        raised(sofar) == [q |-> sofar, ret |-> RetBool(FALSE), save |-> FALSE]
        cleared == [q EXCEPT !.headNode = 0, !.tailNode = 0, !.queueSize = 0]
    IN IF ~has("tracks") THEN raised(cleared)
       ELSE
       LET readable == ReadablePrefix(stateData["tracks"])
           restored == RestoreTracks(cleared, readable)
       IN IF Len(readable) < Len(stateData["tracks"]) \/ ~has("current_index")
          THEN raised(restored)
          ELSE
          LET placed == IF stateData["current_index"] >= 0
                        THEN [restored EXCEPT !.activeNode =
                                StepsFrom(restored.nodes, restored.headNode,
                                          stateData["current_index"])]
                        ELSE restored
          IN IF ~has("is_shuffled") THEN raised(placed)
             ELSE
             LET shuffleSet == [placed EXCEPT !.shuffleEnabled = stateData["is_shuffled"]]
             IN IF ~has("is_repeat") THEN raised(shuffleSet)
                ELSE
                LET repeatSet == [shuffleSet EXCEPT !.repeatEnabled = stateData["is_repeat"]]
                IN IF ~has("is_playing") THEN raised(repeatSet)
                   ELSE
                   LET playingSet == [repeatSet EXCEPT
                                         !.playbackActive = stateData["is_playing"]]
                   IN IF ~has(orderKey)
                      THEN raised([playingSet EXCEPT !.originalSequence = <<>>])
                      ELSE
                      LET order == ReadablePrefix(stateData[orderKey])
                          ordered == [playingSet EXCEPT !.originalSequence =
                                        [i \in 1..Len(order) |-> fromDict(order[i])]]
                      IN IF Len(order) < Len(stateData[orderKey])
                         THEN raised(ordered)
                         ELSE [q |-> ordered, ret |-> RetBool(TRUE), save |-> FALSE]

\* loadQueueState reading the original order from the "tracks" list
loadQueueStateOrderFromTracks(q, file) ==
    IF ~file.exists \/ "json" \notin DOMAIN file
    THEN [q |-> q, ret |-> RetBool(FALSE), save |-> FALSE]
    ELSE restoreFrom(q, file.json, "tracks")

\* no file, or a file json.load cannot parse: False with nothing touched;
\* otherwise the try block
loadQueueState(q, file) ==
    IF ~file.exists \/ "json" \notin DOMAIN file
    THEN [q |-> q, ret |-> RetBool(FALSE), save |-> FALSE]
    ELSE restoreFrom(q, file.json, "original_order")

getCurrentTrack(q) ==
    IF q.activeNode # 0 THEN RetTrack(q.nodes[q.activeNode].trackData) ELSE RetNone

getSize(q) == q.queueSize

isPlaying(q) == q.playbackActive

isShuffled(q) == q.shuffleEnabled

isRepeatOn(q) == q.repeatEnabled

\* duration.split(":") and int() of its first two parts, for the durations the
\* tracks of the model carry
TimeParts(duration) ==
    CASE duration = "3:05" -> <<3, 5>>
      [] duration = "4:10" -> <<4, 10>>
      [] duration = "59:59" -> <<59, 59>>

RECURSIVE TotalSecs(_)
\* the second loop of getTotalDuration
TotalSecs(tracks) ==
    IF Len(tracks) = 0 THEN 0
    ELSE LET timeParts == TimeParts(Head(tracks).trackDuration)
         IN (timeParts[1] * 60) + timeParts[2] + TotalSecs(Tail(tracks))

getTotalDuration(q) ==
    LET totalSecs == TotalSecs(TracksOf(q))
        hrs == totalSecs \div 3600
        mins == (totalSecs % 3600) \div 60
    IN [q |-> q,
        ret |-> RetStr(ToString(hrs) \o " hr " \o ToString(mins) \o " min"),
        save |-> FALSE]

RECURSIVE WalkUntil(_, _, _, _)
\* the node ids met by "while node and node != stop: ...; node = node.nextNode"
WalkUntil(nodes, id, stop, fuel) ==
    IF id = 0 \/ id = stop \/ fuel = 0 THEN <<>>
    ELSE <<id>> \o WalkUntil(nodes, nodes[id].nextNode, stop, fuel - 1)

tracksPerPage == 10

\* getCurrentPageNumber counting the active node among the nodes before it
getCurrentPageNumberFromOne(q) ==
    IF q.activeNode = 0
    THEN [q |-> q, ret |-> RetInt(1), save |-> FALSE]
    ELSE LET ch == Chain(q)
             totalSize == Len(ch)
             position == IF \E i \in 1..Len(ch) : ch[i] = q.activeNode
                         THEN IndexIn(ch, q.activeNode)
                         ELSE totalSize
             page == (position \div 10) + 1
             totalPages == (totalSize \div 10) + 1
         IN [q |-> q, ret |-> RetInt(IF page > totalPages THEN totalPages ELSE page),
             save |-> FALSE]

\* position counts the nodes before the active one and ends as totalSize when
\* the walk from the head does not meet it
getCurrentPageNumber(q) ==
    IF q.activeNode = 0
    THEN [q |-> q, ret |-> RetInt(1), save |-> FALSE]
    ELSE LET ch == Chain(q)
             totalSize == Len(ch)
             position == IF \E i \in 1..Len(ch) : ch[i] = q.activeNode
                         THEN IndexIn(ch, q.activeNode) - 1
                         ELSE totalSize
             page == (position \div 10) + 1
             totalPages == (totalSize \div 10) + 1
         IN [q |-> q, ret |-> RetInt(IF page > totalPages THEN totalPages ELSE page),
             save |-> FALSE]

\* nodeList of showQueue with the wrap from the head made whatever repeatEnabled is
upNextWrapsAlways(q) ==
    IF q.activeNode # 0
    THEN LET following == WalkFrom(q.nodes, q.nodes[q.activeNode].nextNode, Len(q.nodes))
         IN IF Len(following) < tracksPerPage
            THEN following \o WalkUntil(q.nodes, q.headNode, q.activeNode, Len(q.nodes))
            ELSE following
    ELSE Chain(q)

\* nodeList of showQueue: the ids of the nodes it collects for display
upNext(q) ==
    IF q.activeNode # 0
    THEN LET following == WalkFrom(q.nodes, q.nodes[q.activeNode].nextNode, Len(q.nodes))
         IN IF q.repeatEnabled /\ Len(following) < tracksPerPage
            THEN following \o WalkUntil(q.nodes, q.headNode, q.activeNode, Len(q.nodes))
            ELSE following
    ELSE Chain(q)

\* what showQueue(pageNum) prints: the total duration, the flags, the heading
\* and the active track, the numbered entries of the page, the placeholder and
\* the page footer
showQueueLines(q, pageNum) ==
    IF q.queueSize = 0
    THEN [lines |-> "empty"]
    ELSE LET nodeList == upNext(q)
             startIdx == (pageNum - 1) * tracksPerPage
             endIdx == IF startIdx + tracksPerPage < Len(nodeList)
                       THEN startIdx + tracksPerPage ELSE Len(nodeList)
             totalPages == IF Len(nodeList) > 0
                           THEN (Len(nodeList) + tracksPerPage - 1) \div tracksPerPage
                           ELSE (q.queueSize + tracksPerPage - 1) \div tracksPerPage
         IN [lines |-> "queue",
             duration |-> getTotalDuration(q).ret.val,
             shuffled |-> q.shuffleEnabled,
             repeat |-> q.repeatEnabled,
             heading |-> IF q.activeNode = 0 THEN "Queue"
                         ELSE IF q.playbackActive THEN "Currently Playing"
                         ELSE "Currently Paused",
             current |-> getCurrentTrack(q),
             nodeList |-> nodeList,
             placeholder |-> Len(nodeList) = 0,
             entries |-> [i \in (startIdx + 1)..endIdx |->
                             q.nodes[nodeList[i]].trackData],
             pageNum |-> pageNum,
             totalPages |-> totalPages]

\* showQueue ending in a saveQueueState call
showQueueSaves(q, pageNum) ==
    [q |-> q, ret |-> RetNone, save |-> TRUE, out |-> showQueueLines(q, pageNum)]

\* showQueue(pageNum): prints, returns None and assigns nothing
showQueue(q, pageNum) ==
    [q |-> q, ret |-> RetNone, save |-> FALSE, out |-> showQueueLines(q, pageNum)]

\* ------------------------------------------------------------------ state machine
InitWith(library) ==
    /\ catalog = library
    /\ queue = NewQueue
    /\ stateFile = NoFile
    /\ lastOp = "init"
    /\ lastArg = NoArg
    /\ lastResult = RetNone
    /\ runStart = 0
    /\ runLen = 0
    /\ shuffledFrom = <<>>
    /\ origBefore = <<>>
    /\ lastWrite = "none"
    /\ positionBefore = -1
    /\ printed = Silent
    /\ rewoundAdvance = FALSE

Init == InitWith(Tracks)

\* a method call with outcome r
Call(name, arg, r) ==
    /\ LET after == Normalize(r.q)
       IN /\ queue' = after
          /\ stateFile' = IF r.save THEN FileWith(saveQueueState(after)) ELSE stateFile
    /\ lastOp' = name
    /\ lastArg' = arg
    /\ lastResult' = r.ret
    /\ runStart' = IF name # "advanceToNext" THEN 0
                   ELSE IF runLen = 0 THEN ActivePosition(queue) + 1
                   ELSE runStart
    /\ runLen' = IF name # "advanceToNext" THEN 0
                 ELSE IF runLen < RunCap THEN runLen + 1 ELSE runLen
    /\ shuffledFrom' = IF name = "shuffleQueue" /\ r.save THEN TracksOf(queue)
                       ELSE IF name = "restoreOriginalOrder" /\ lastOp = "shuffleQueue"
                       THEN shuffledFrom
                       ELSE <<>>
    /\ origBefore' = queue.originalSequence
    /\ lastWrite' = IF r.save THEN "ok" ELSE "none"
    /\ positionBefore' = ActivePosition(queue)
    /\ printed' = IF "out" \in DOMAIN r THEN r.out ELSE Silent
    /\ rewoundAdvance' = /\ name = "rewindToPrevious"
                         /\ lastOp = "advanceToNext"
                         /\ lastResult.kind = "track"
    /\ UNCHANGED catalog

AddTrack ==
    \E t \in catalog :
        /\ \/ queue.queueSize < MaxSize /\ Len(queue.originalSequence) < MaxSize
           \/ IsDuplicate(queue, t)
        /\ LET r == addTrack(queue, t)
           IN Call("addTrack", <<t>>, [q |-> r.q, ret |-> RetBool(r.ret), save |-> FALSE])

\* the library menu's "add to queue": addTrack, and saveQueueState if it returned True
HandleAddTrackToQueue ==
    \E selectedTrack \in catalog :
        /\ \/ queue.queueSize < MaxSize /\ Len(queue.originalSequence) < MaxSize
           \/ IsDuplicate(queue, selectedTrack)
        /\ LET wasAdded == addTrack(queue, selectedTrack)
           IN Call("handleAddTrackToQueue", NoArg,
                   [q |-> wasAdded.q, ret |-> RetNone, save |-> wasAdded.ret])

TrackLists == UNION {[1..n -> catalog] : n \in 0..MaxLoad}

LoadTracks ==
    \E l \in TrackLists :
        LET r == loadTracks(queue, l)
        IN /\ r.q.queueSize <= MaxSize
           /\ Call("loadTracks", NoArg, r)

\* "queue playlist directly" of handleViewPlaylists: clearQueue, then loadTracks
\* with the playlist's tracks
QueuePlaylist ==
    \E l \in TrackLists :
        \E r \in {loadTracks(clearQueue(queue).q, l)} : Call("queuePlaylist", <<l>>, r)

\* an album of n tracks, no two of them equal
AlbumTrack(i) == Track(ToString(i), StrArtist("abba"), "gold", "3:05")
AlbumTracks(n) == [i \in 1..n |-> AlbumTrack(i)]

\* "queue album" of processAlbums: clearQueue, then loadTracks with the
\* album's tracks
QueueAlbum ==
    \E n \in 1..MaxAlbum :
        \E r \in {loadTracks(clearQueue(queue).q, AlbumTracks(n))} :
            Call("queueAlbum", <<AlbumTracks(n)>>, r)

GetCurrentTrack ==
    \E r \in {[q |-> queue, ret |-> getCurrentTrack(queue), save |-> FALSE]} :
        Call("getCurrentTrack", NoArg, r)

GetSize ==
    \E r \in {[q |-> queue, ret |-> RetInt(getSize(queue)), save |-> FALSE]} :
        Call("getSize", NoArg, r)

IsPlaying ==
    \E r \in {[q |-> queue, ret |-> RetBool(isPlaying(queue)), save |-> FALSE]} :
        Call("isPlaying", NoArg, r)

IsShuffled ==
    \E r \in {[q |-> queue, ret |-> RetBool(isShuffled(queue)), save |-> FALSE]} :
        Call("isShuffled", NoArg, r)

IsRepeatOn ==
    \E r \in {[q |-> queue, ret |-> RetBool(isRepeatOn(queue)), save |-> FALSE]} :
        Call("isRepeatOn", NoArg, r)

GetTotalDuration ==
    \E r \in {getTotalDuration(queue)} : Call("getTotalDuration", NoArg, r)

GetCurrentPageNumber ==
    \E r \in {getCurrentPageNumber(queue)} : Call("getCurrentPageNumber", NoArg, r)

ShowQueue ==
    \E pageNum \in 1..MaxPage :
        \E r \in {showQueue(queue, pageNum)} : Call("showQueue", <<pageNum>>, r)

StartPlayback ==
    \E r \in {startPlayback(queue)} : Call("startPlayback", NoArg, r)

PausePlayback ==
    \E r \in {pausePlayback(queue)} : Call("pausePlayback", NoArg, r)

AdvanceToNext ==
    \E r \in {advanceToNext(queue)} : Call("advanceToNext", NoArg, r)

RewindToPrevious ==
    \E r \in {rewindToPrevious(queue)} : Call("rewindToPrevious", NoArg, r)

\* taken while the list it leaves holds no more than MaxSize nodes
ShuffleQueue ==
    \E r \in shuffleQueue(queue) :
        /\ r.q.queueSize <= MaxSize
        /\ Call("shuffleQueue", NoArg, r)

\* taken while the list and the original order it leaves hold no more than
\* MaxSize entries
RestoreOriginalOrder ==
    \E r \in {restoreOriginalOrder(queue)} :
        /\ r.q.queueSize <= MaxSize
        /\ Len(r.q.originalSequence) <= MaxSize
        /\ Call("restoreOriginalOrder", NoArg, r)

ToggleRepeat ==
    \E r \in {toggleRepeat(queue)} : Call("toggleRepeat", NoArg, r)

ClearQueue ==
    \E r \in {clearQueue(queue)} : Call("clearQueue", NoArg, r)

SaveQueueState ==
    \E r \in {[q |-> queue, ret |-> RetNone, save |-> TRUE]} :
        Call("saveQueueState", NoArg, r)

LoadQueueState ==
    \E r \in {loadQueueState(queue, stateFile)} : Call("loadQueueState", NoArg, r)

\* the process ends and a new one constructs its Queue; the state file stays on disk
Restart ==
    /\ lastOp # "Queue"
    /\ Call("Queue", NoArg, [q |-> NewQueue, ret |-> RetNone, save |-> FALSE])

\* the six keys saveQueueState writes and loadQueueState reads
StateKeys == {"tracks", "current_index", "is_shuffled", "is_repeat", "is_playing",
              "original_order"}

\* what an edit from outside can make of the document json: the text cut short,
\* one key gone, the last entry of a track list reduced to its title, or another
\* current_index from -1 up to the number of tracks
EditedFiles(json) ==
    LET n == Len(json.tracks)
        m == Len(json.original_order)
    IN {Unparseable}
       \cup {FileWith([key \in StateKeys \ {gone} |-> json[key]]) : gone \in StateKeys}
       \cup (IF n = 0 THEN {}
             ELSE {FileWith([json EXCEPT !.tracks[n] = [title |-> @.title]])})
       \cup (IF m = 0 THEN {}
             ELSE {FileWith([json EXCEPT !.original_order[m] = [title |-> @.title]])})
       \cup {FileWith([json EXCEPT !.current_index = i]) :
                 i \in (-1..n) \ {json.current_index}}

\* storage/queue_state.json is changed on disk between a write and the next
\* read; one change per written file
EditStateFile ==
    /\ lastWrite = "ok"
    /\ \E edited \in EditedFiles(stateFile.json) :
          /\ stateFile' = edited
          /\ lastOp' = "edit"
          /\ lastArg' = NoArg
          /\ lastResult' = RetNone
          /\ runStart' = 0
          /\ runLen' = 0
          /\ shuffledFrom' = <<>>
          /\ origBefore' = queue.originalSequence
          /\ lastWrite' = "none"
          /\ positionBefore' = ActivePosition(queue)
          /\ printed' = Silent
          /\ rewoundAdvance' = FALSE
          /\ UNCHANGED <<catalog, queue>>

\* the calls that end in saveQueueState, each with its outcome
SavingCalls(q) ==
    {[name |-> "startPlayback", r |-> startPlayback(q)],
     [name |-> "pausePlayback", r |-> pausePlayback(q)],
     [name |-> "advanceToNext", r |-> advanceToNext(q)],
     [name |-> "rewindToPrevious", r |-> rewindToPrevious(q)],
     [name |-> "restoreOriginalOrder", r |-> restoreOriginalOrder(q)],
     [name |-> "toggleRepeat", r |-> toggleRepeat(q)],
     [name |-> "clearQueue", r |-> clearQueue(q)],
     [name |-> "saveQueueState", r |-> [q |-> q, ret |-> RetNone, save |-> TRUE]]}
    \cup {[name |-> "shuffleQueue", r |-> r] : r \in shuffleQueue(q)}

\* the queue left in memory when the write raises after a method had reached it
\* in state q: the write was handed the copy of state it did not write
raiseFromSaveUndone(q, r) == q

\* the queue left in memory when saveQueueState raises: the method's
\* assignments all precede the call and nothing catches the exception
raiseFromSave(q, r) == r.q

\* makedirs, open or json.dump raises inside saveQueueState: the exception
\* leaves the method that called it, and the file is as it was or, opened for
\* writing and cut short, no longer JSON; no two writes in a row fail
WriteFails ==
    /\ lastWrite # "failed"
    /\ \E call \in SavingCalls(queue), left \in {stateFile, Unparseable} :
          /\ call.r.save
          /\ queue' = Normalize(raiseFromSave(queue, call.r))
          /\ stateFile' = left
          /\ lastOp' = call.name
          /\ lastArg' = NoArg
          /\ lastResult' = RetRaised
          /\ runStart' = 0
          /\ runLen' = 0
          /\ shuffledFrom' = <<>>
          /\ origBefore' = queue.originalSequence
          /\ lastWrite' = "failed"
          /\ positionBefore' = ActivePosition(queue)
          /\ printed' = Silent
          /\ rewoundAdvance' = FALSE
          /\ UNCHANGED catalog

Next ==
    \/ AddTrack
    \/ HandleAddTrackToQueue
    \/ LoadTracks
    \/ StartPlayback
    \/ PausePlayback
    \/ AdvanceToNext
    \/ RewindToPrevious
    \/ ShuffleQueue
    \/ RestoreOriginalOrder
    \/ ToggleRepeat
    \/ ClearQueue
    \/ SaveQueueState

\* the engine's methods, called in any order on one Queue object
Spec == Init /\ [][Next]_vars

NextPersist ==
    \/ Next
    \/ LoadQueueState
    \/ Restart

InitPersist == InitWith(PersistCatalog)

\* the same with processQueue's loadQueueState and process restarts in between
SpecPersist == InitPersist /\ [][NextPersist]_vars

NextWrite ==
    \/ HandleAddTrackToQueue
    \/ AdvanceToNext
    \/ ShuffleQueue
    \/ RestoreOriginalOrder
    \/ ToggleRepeat
    \/ WriteFails

InitWrite == InitWith(PersistCatalog)

\* adding, advancing, shuffling, restoring and toggling, with writes that can fail
SpecWrite == InitWrite /\ [][NextWrite]_vars

NextRestore ==
    \/ HandleAddTrackToQueue
    \/ AdvanceToNext
    \/ EditStateFile
    \/ LoadQueueState
    \/ Restart

InitRestore == InitWith(SmallCatalog)

\* a library of two tracks, the state file open to edits, and processQueue's
\* loadQueueState in running and in new processes
SpecRestore == InitRestore /\ [][NextRestore]_vars

NextLoad ==
    \/ AddTrack
    \/ LoadTracks
    \/ QueuePlaylist
    \/ StartPlayback
    \/ ToggleRepeat
    \/ ShuffleQueue

\* building the queue track by track, list by list and from a playlist
SpecLoad == Init /\ [][NextLoad]_vars

\* a library with a track of nearly an hour
QueryCatalog == {T1, T3, T5}

NextDamage ==
    \/ HandleAddTrackToQueue
    \/ ShuffleQueue
    \/ RestoreOriginalOrder
    \/ ClearQueue
    \/ EditStateFile
    \/ LoadQueueState

\* adding, shuffling, restoring and clearing on a queue that is read back from
\* a state file open to edits
SpecDamage == InitRestore /\ [][NextDamage]_vars

NextQuery ==
    \/ AddTrack
    \/ HandleAddTrackToQueue
    \/ AdvanceToNext
    \/ ShuffleQueue
    \/ ToggleRepeat
    \/ GetCurrentTrack
    \/ GetSize
    \/ IsPlaying
    \/ IsShuffled
    \/ IsRepeatOn
    \/ GetTotalDuration
    \/ GetCurrentPageNumber
    \/ ShowQueue

InitQuery == InitWith(QueryCatalog)

\* the queries and the view called between changes of the queue, some of them
\* saved and some not
SpecQuery == InitQuery /\ [][NextQuery]_vars

NextPages ==
    \/ QueueAlbum
    \/ AdvanceToNext
    \/ RewindToPrevious
    \/ ToggleRepeat
    \/ GetCurrentPageNumber
    \/ ShowQueue

\* viewing the queue of an album while moving through it
SpecPages == Init /\ [][NextPages]_vars

NextOrder ==
    \/ AddTrack
    \/ AdvanceToNext
    \/ ShuffleQueue
    \/ RestoreOriginalOrder

InitOrder == InitWith(OrderCatalog)

\* the calls that build and reorder the sequence, on queues of up to four tracks
SpecOrder == InitOrder /\ [][NextOrder]_vars

\* ------------------------------------------------------------------ properties
Sequence == TracksOf(queue)

\* some track of the sequence equals t by Track.__eq__
HoldsEqual(q, t) ==
    \E i \in 1..Len(TracksOf(q)) : TrackEq(TracksOf(q)[i], t)

\* C1: addTrack(t) on a queue that already holds a track equal to t returns
\* False and changes nothing of the queue: not the sequence, its size, the
\* active node, originalSequence or any of the three flags, shuffled or not.
C1_DuplicateRejected ==
    [][(lastOp' = "addTrack" /\ HoldsEqual(queue, lastArg'[1]))
          => /\ lastResult' = RetBool(FALSE)
             /\ queue' = queue]_vars

\* a duplicate that is not the same object was refused while the queue was shuffled
C1_Witness ==
    /\ lastOp = "addTrack"
    /\ lastResult = RetBool(FALSE)
    /\ queue.shuffleEnabled
    /\ HoldsEqual(queue, lastArg[1])
    /\ \A i \in 1..Len(Sequence) : Sequence[i] # lastArg[1]

\* C2: no two nodes of the sequence hold equal track references.
C2_NoEqualTracks ==
    \A i, j \in 1..Len(Sequence) :
        i # j => ~TrackEq(Sequence[i], Sequence[j])

\* a full queue rebuilt by restoreOriginalOrder
C2_Witness ==
    /\ lastOp = "restoreOriginalOrder"
    /\ shuffledFrom # <<>>
    /\ Len(Sequence) = 3
    /\ ~queue.shuffleEnabled

\* the four-field rule of the data model: title, artist and album compared without
\* regard to letter case, duration compared as it is
SameIgnoringCase(a, b) ==
    /\ Lower(a.trackTitle) = Lower(b.trackTitle)
    /\ Lower(StrOf(a.trackArtist)) = Lower(StrOf(b.trackArtist))
    /\ Lower(a.trackAlbum) = Lower(b.trackAlbum)
    /\ a.trackDuration = b.trackDuration

\* C3: on a queue holding one track, addTrack of a track that differs from it
\* only in the letter case of title, artist or album returns False and leaves
\* the size at 1.
C3_CaseInsensitiveDedup ==
    [][(/\ lastOp' = "addTrack"
        /\ Len(Sequence) = 1
        /\ SameIgnoringCase(Sequence[1], lastArg'[1]))
          => /\ lastResult' = RetBool(FALSE)
             /\ getSize(queue') = 1]_vars

\* C4: the active cursor is unset exactly when the sequence is empty, and
\* otherwise is one of the nodes reached from the head.
C4_ActiveIffNonEmpty ==
    /\ queue.activeNode = 0 <=> queue.headNode = 0
    /\ queue.activeNode # 0 => queue.activeNode \in Range(Chain(queue))

\* zero-based position of the active node, as ActivePosition reports it
Position == ActivePosition(queue)

\* C5: with repeat off, N > 1 tracks and the active node at the head, each of
\* the first N-1 advanceToNext calls returns the next track of the sequence,
\* the (N-1)th leaves the active node at the tail, and the Nth returns None,
\* leaves playing False and the active node at the tail.
C5_AdvanceToTailThenNone ==
    (/\ lastOp = "advanceToNext"
     /\ ~queue.repeatEnabled
     /\ runStart = 1
     /\ Len(Sequence) > 1)
      => /\ runLen <= Len(Sequence) - 1
            => /\ lastResult = RetTrack(Sequence[runLen + 1])
               /\ Position = runLen
         /\ runLen = Len(Sequence) - 1 => queue.activeNode = queue.tailNode
         /\ runLen = Len(Sequence)
            => /\ lastResult = RetNone
               /\ ~queue.playbackActive
               /\ queue.activeNode = queue.tailNode
               /\ Position = Len(Sequence) - 1

\* three tracks, three advances from the head and the fourth call reported None
C5_Witness ==
    /\ lastOp = "advanceToNext"
    /\ ~queue.repeatEnabled
    /\ runStart = 1
    /\ Len(Sequence) = 3
    /\ runLen = 3
    /\ lastResult = RetNone

\* C6: with repeat on and a non-empty queue, advanceToNext at the tail moves the
\* active node to the head and returns the head's track; rewindToPrevious at the
\* head moves it to the tail and returns the tail's track.
C6_RepeatWraps ==
    [][(queue.repeatEnabled /\ Len(Sequence) > 0)
          => /\ (lastOp' = "advanceToNext" /\ Position = Len(Sequence) - 1)
                => /\ queue'.activeNode = queue'.headNode
                   /\ ActivePosition(queue') = 0
                   /\ lastResult' = RetTrack(Sequence[1])
             /\ (lastOp' = "rewindToPrevious" /\ Position = 0)
                => /\ queue'.activeNode = queue'.tailNode
                   /\ ActivePosition(queue') = Len(Sequence) - 1
                   /\ lastResult' = RetTrack(Sequence[Len(Sequence)])]_vars

\* one advanceToNext from the tail of three tracks ended at the head
C6_Witness ==
    /\ lastOp = "advanceToNext"
    /\ queue.repeatEnabled
    /\ Len(Sequence) = 3
    /\ runStart = 3
    /\ runLen = 1
    /\ Position = 0

IsPermutationOf(a, b) ==
    /\ Len(a) = Len(b)
    /\ \E p \in Permutations(1..Len(a)) : \A i \in 1..Len(a) : b[i] = a[p[i]]

\* C7: shuffleQueue on an unshuffled queue of N > 1 tracks with the active node
\* at position k keeps the first k entries as they are, keeps the active track
\* at position k with the cursor on it, leaves a permutation of the tracks that
\* followed it in the last N-k-1 places, and sets shuffled.
C7_ShuffleKeepsHistory ==
    [][(/\ lastOp' = "shuffleQueue"
        /\ ~queue.shuffleEnabled
        /\ Len(Sequence) > 1)
          => LET k == Position
                 n == Len(Sequence)
                 after == TracksOf(queue')
             IN /\ Len(after) = n
                /\ SubSeq(after, 1, k + 1) = SubSeq(Sequence, 1, k + 1)
                /\ ActivePosition(queue') = k
                /\ getCurrentTrack(queue') = RetTrack(Sequence[k + 1])
                /\ IsPermutationOf(SubSeq(Sequence, k + 2, n), SubSeq(after, k + 2, n))
                /\ queue'.shuffleEnabled]_vars

\* a shuffle from the head of three tracks that exchanged the two tracks to come
C7_Witness ==
    /\ lastOp = "shuffleQueue"
    /\ shuffledFrom # <<>>
    /\ Len(Sequence) = 3
    /\ Position = 0
    /\ Sequence # shuffledFrom

TracksEqual(a, b) ==
    /\ Len(a) = Len(b)
    /\ \A i \in 1..Len(a) : TrackEq(a[i], b[i])

\* C8: shuffleQueue on an unshuffled queue of more than one track, followed at
\* once by restoreOriginalOrder, leaves the sequence equal track by track to
\* the sequence before the shuffle, with shuffled False.
C8_ShuffleThenRestore ==
    (lastOp = "restoreOriginalOrder" /\ shuffledFrom # <<>>)
      => /\ TracksEqual(Sequence, shuffledFrom)
         /\ ~queue.shuffleEnabled

\* three tracks restored right after a shuffle from the middle one
C8_Witness ==
    /\ lastOp = "restoreOriginalOrder"
    /\ shuffledFrom # <<>>
    /\ Len(shuffledFrom) = 3
    /\ Position = 1
    /\ queue.playbackActive

\* the tracks of q's sequence with no equal in s, in sequence order
NotIn(q, s) ==
    LET ts == TracksOf(q)
    IN SelectPos(ts, {i \in 1..Len(ts) : \A j \in 1..Len(s) : ~TrackEq(ts[i], s[j])})

\* C9: a track added while the queue is shuffled goes to the tail and not into
\* originalSequence, which no call but restoreOriginalOrder changes while the
\* queue is shuffled; restoreOriginalOrder then makes the sequence the old
\* originalSequence followed by the tracks it lacked, in the order they had in
\* the shuffled sequence, and makes originalSequence that same list.
C9_RestoreMergesArrivals ==
    [][/\ (lastOp' = "addTrack" /\ lastResult' = RetBool(TRUE) /\ queue.shuffleEnabled)
          => /\ TracksOf(queue') = Append(Sequence, lastArg'[1])
             /\ \A j \in 1..Len(queue'.originalSequence) :
                   ~TrackEq(queue'.originalSequence[j], lastArg'[1])
       /\ (queue.shuffleEnabled /\ lastOp' \notin {"restoreOriginalOrder", "clearQueue"})
          => queue'.originalSequence = queue.originalSequence
       /\ (lastOp' = "restoreOriginalOrder" /\ queue.shuffleEnabled)
          => LET merged == queue.originalSequence \o NotIn(queue, queue.originalSequence)
             IN /\ TracksOf(queue') = merged
                /\ queue'.originalSequence = merged]_vars

\* restoreOriginalOrder merged two tracks that had been added to a shuffled pair
C9_Witness ==
    /\ lastOp = "restoreOriginalOrder"
    /\ Len(origBefore) = 2
    /\ Len(Sequence) = 4
    /\ queue.originalSequence = Sequence
    /\ SubSeq(Sequence, 1, 2) = origBefore

\* C10: loadQueueState on a newly constructed Queue, with a state file written
\* by saveQueueState, returns True and leaves a queue whose track sequence,
\* zero-based active index, three flags and originalSequence are those saved.
C10_SaveLoadRoundTrip ==
    [][(lastOp' = "loadQueueState" /\ queue = NewQueue /\ stateFile.exists)
          => LET saved == stateFile.json
                 ts == TracksOf(queue')
             IN /\ lastResult' = RetBool(TRUE)
                /\ Len(ts) = Len(saved.tracks)
                /\ \A i \in 1..Len(ts) : toDict(ts[i]) = saved.tracks[i]
                /\ ActivePosition(queue') = saved.current_index
                /\ queue'.activeNode = 0 <=> saved.current_index = -1
                /\ queue'.shuffleEnabled = saved.is_shuffled
                /\ queue'.repeatEnabled = saved.is_repeat
                /\ queue'.playbackActive = saved.is_playing
                /\ Len(queue'.originalSequence) = Len(saved.original_order)
                /\ \A i \in 1..Len(saved.original_order) :
                      toDict(queue'.originalSequence[i]) = saved.original_order[i]
                /\ getSize(queue') = Len(saved.tracks)]_vars

\* a shuffled, playing, three-track state with the cursor in the middle came back
C10_Witness ==
    /\ lastOp = "loadQueueState"
    /\ lastResult = RetBool(TRUE)
    /\ origBefore = <<>>
    /\ queue.shuffleEnabled
    /\ queue.playbackActive
    /\ Len(Sequence) = 3
    /\ Position = 1
    /\ Sequence # queue.originalSequence
    /\ stateFile = FileWith(saveQueueState(queue))

\* the state file holds what saveQueueState writes for the queue as it is in memory
Persisted(q, file) == file = FileWith(saveQueueState(q))

\* C11 as stated: after each mutating method returns (addTrack that returned
\* True, advanceToNext, rewindToPrevious, shuffleQueue, restoreOriginalOrder,
\* toggleRepeat, clearQueue, startPlayback, pausePlayback) the state file
\* holds the serialization of the in-memory state.
C11_PersistedAfterEveryMutation ==
    [][(\/ lastOp' = "addTrack" /\ lastResult' = RetBool(TRUE)
        \/ lastOp' \in {"advanceToNext", "rewindToPrevious", "shuffleQueue",
                        "restoreOriginalOrder", "toggleRepeat", "clearQueue",
                        "startPlayback", "pausePlayback"})
          => Persisted(queue', stateFile')]_vars

\* C11 amended: Queue.addTrack writes nothing; the state file holds the
\* serialization of the in-memory state after the saveQueueState that
\* handleAddTrackToQueue calls when addTrack returned True, after loadTracks,
\* toggleRepeat, clearQueue, startPlayback and pausePlayback, after
\* advanceToNext and rewindToPrevious on a queue with an active track, after
\* shuffleQueue on an unshuffled queue of more than one track and after
\* restoreOriginalOrder on a shuffled queue.
C11_PersistedAfterSave ==
    [][/\ lastOp' = "addTrack" => stateFile' = stateFile
       /\ (\/ lastOp' = "handleAddTrackToQueue" /\ Len(TracksOf(queue')) > Len(Sequence)
           \/ lastOp' \in {"loadTracks", "toggleRepeat", "clearQueue",
                           "startPlayback", "pausePlayback"}
           \/ lastOp' \in {"advanceToNext", "rewindToPrevious"} /\ queue.activeNode # 0
           \/ lastOp' = "shuffleQueue" /\ ~queue.shuffleEnabled /\ queue.queueSize > 1
           \/ lastOp' = "restoreOriginalOrder" /\ queue.shuffleEnabled)
          => Persisted(queue', stateFile')]_vars

\* handleAddTrackToQueue added a third track to a shuffled pair and saved it
C11_Witness ==
    /\ lastOp = "handleAddTrackToQueue"
    /\ lastWrite = "ok"
    /\ queue.shuffleEnabled
    /\ Len(Sequence) = 3
    /\ Len(queue.originalSequence) = 2
    /\ stateFile.exists
    /\ Len(stateFile.json.tracks) = 3
    /\ Persisted(queue, stateFile)
\* the file holds a JSON document with the six keys, every track entry complete
WellFormed(file) ==
    /\ file.exists
    /\ "json" \in DOMAIN file
    /\ StateKeys \subseteq DOMAIN file.json
    /\ \A i \in 1..Len(file.json.tracks) : TrackKeys \subseteq DOMAIN file.json.tracks[i]
    /\ \A i \in 1..Len(file.json.original_order) :
          TrackKeys \subseteq DOMAIN file.json.original_order[i]

\* C12: loadQueueState on a newly constructed Queue, with the state file
\* missing, not JSON, lacking a key or holding an incomplete track entry,
\* returns False without raising and leaves the queue as constructed: no
\* tracks, size 0, no active track, the three flags False, originalSequence
\* empty.
C12_LoadFailsClosed ==
    [][(lastOp' = "loadQueueState" /\ queue = NewQueue /\ ~WellFormed(stateFile))
          => /\ lastResult' = RetBool(FALSE)
             /\ queue' = NewQueue]_vars

\* C20: after loadQueueState of a well-formed state file with at least one
\* track, whatever integer current_index is, the active cursor is a node of
\* the restored sequence.
C20_RestoredCursorInSequence ==
    [][(/\ lastOp' = "loadQueueState"
        /\ WellFormed(stateFile)
        /\ Len(stateFile.json.tracks) > 0)
          => queue'.activeNode \in Range(Chain(queue'))]_vars
\* no two nodes of q's sequence hold equal tracks
NoEqualTracks(q) ==
    LET ts == TracksOf(q)
    IN \A i, j \in 1..Len(ts) : i # j => ~TrackEq(ts[i], ts[j])

\* q's cursor is unset on an empty sequence and otherwise on one of its nodes
ActiveInSequence(q) ==
    /\ q.activeNode = 0 <=> q.headNode = 0
    /\ q.activeNode # 0 => q.activeNode \in Range(Chain(q))

\* head without a backward link, tail the last node met from the head and
\* without a forward link, and n.nextNode.prevNode = n for every node before it
LinksConsistent(q) ==
    LET ch == Chain(q)
        n == Len(ch)
    IN IF q.headNode = 0 THEN q.tailNode = 0
       ELSE /\ q.nodes[q.headNode].prevNode = 0
            /\ q.tailNode = ch[n]
            /\ q.nodes[q.tailNode].nextNode = 0
            /\ \A i \in 1..(n - 1) :
                  /\ q.nodes[ch[i]].nextNode # 0
                  /\ q.nodes[q.nodes[ch[i]].nextNode].prevNode = ch[i]

SizeIsNodeCount(q) == q.queueSize = Len(Chain(q))

C14_WriteFailureIsAResult ==
    [][lastWrite' = "failed"
          => /\ lastResult' # RetRaised
             /\ (lastOp' = "advanceToNext" /\ queue'.activeNode # queue.activeNode)
                   => lastResult' = getCurrentTrack(queue')]_vars
\* C15: rewindToPrevious with the active node at the head and repeat off
\* leaves the active node at the head, the sequence as it was, and returns the
\* head's track; it returns None only when the queue is empty.
C15_RewindAtHeadStays ==
    [][lastOp' = "rewindToPrevious"
          => /\ (~queue.repeatEnabled /\ queue.headNode # 0
                    /\ queue.activeNode = queue.headNode)
                  => /\ queue'.activeNode = queue'.headNode
                     /\ TracksOf(queue') = Sequence
                     /\ lastResult' = RetTrack(Sequence[1])
             /\ lastResult' = RetNone => Len(Sequence) = 0]_vars

\* rewindToPrevious from the head of three tracks, repeat off, stayed there
C15_Witness ==
    /\ lastOp = "rewindToPrevious"
    /\ positionBefore = 0
    /\ ~queue.repeatEnabled
    /\ Len(Sequence) = 3
    /\ Position = 0
    /\ lastResult = RetTrack(Sequence[1])
IsPrefix(a, b) ==
    /\ Len(a) <= Len(b)
    /\ SubSeq(b, 1, Len(a)) = a

\* C16: every call but clearQueue (addTrack, loadTracks, startPlayback,
\* pausePlayback, advanceToNext, rewindToPrevious, shuffleQueue,
\* restoreOriginalOrder, toggleRepeat) leaves originalSequence with its old
\* value as a prefix, and addTrack returning True on an unshuffled queue
\* appends its track to it.
C16_OriginalOrderOnlyGrows ==
    [][/\ lastOp' \in {"addTrack", "handleAddTrackToQueue", "loadTracks",
                       "startPlayback", "pausePlayback", "advanceToNext",
                       "rewindToPrevious", "shuffleQueue", "restoreOriginalOrder",
                       "toggleRepeat", "saveQueueState"}
          => IsPrefix(queue.originalSequence, queue'.originalSequence)
       /\ (lastOp' = "addTrack" /\ lastResult' = RetBool(TRUE) /\ ~queue.shuffleEnabled)
          => queue'.originalSequence = Append(queue.originalSequence, lastArg'[1])]_vars

\* restoreOriginalOrder lengthened an original order of two by the track
\* that had been added while the queue was shuffled
C16_Witness ==
    /\ lastOp = "restoreOriginalOrder"
    /\ Len(origBefore) = 2
    /\ Len(queue.originalSequence) = 3
    /\ IsPrefix(origBefore, queue.originalSequence)
    /\ positionBefore = 1
\* C17: in every reachable state the head has no backward link, the tail has
\* no forward link and is the last node reached from the head, and every node
\* n before the tail has n.nextNode.prevNode = n; so after addTrack,
\* shuffleQueue, restoreOriginalOrder, clearQueue and loadQueueState.
C17_LinksConsistent == LinksConsistent(queue)

\* loadQueueState rebuilt a list of three nodes
C17_Witness ==
    /\ lastOp = "loadQueueState"
    /\ lastResult = RetBool(TRUE)
    /\ Len(Sequence) = 3
    /\ queue.nodes[queue.tailNode].prevNode # 0
    /\ queue.nodes[queue.nodes[queue.tailNode].prevNode].prevNode = queue.headNode

\* the document saveQueueState writes for an empty queue
EmptyState ==
    [tracks |-> <<>>, current_index |-> -1, is_shuffled |-> FALSE,
     is_repeat |-> FALSE, is_playing |-> FALSE, original_order |-> <<>>]

\* C18: after clearQueue, from any state, the sequence is empty, the size 0,
\* the active node unset, the three flags False, originalSequence empty, and
\* the state file holds that empty state with current_index -1.
C18_ClearResetsAll ==
    [][lastOp' = "clearQueue"
          => /\ TracksOf(queue') = <<>>
             /\ queue'.headNode = 0
             /\ queue'.tailNode = 0
             /\ getSize(queue') = 0
             /\ queue'.activeNode = 0
             /\ getCurrentTrack(queue') = RetNone
             /\ ~queue'.shuffleEnabled
             /\ ~queue'.repeatEnabled
             /\ ~queue'.playbackActive
             /\ queue'.originalSequence = <<>>
             /\ stateFile' = FileWith(EmptyState)]_vars

\* clearQueue emptied a queue that had an original order of three tracks and
\* its cursor on the second
C18_Witness ==
    /\ lastOp = "clearQueue"
    /\ Len(origBefore) = 3
    /\ positionBefore = 1
    /\ queue = NewQueue
    /\ stateFile = FileWith(EmptyState)

\* C19: restoreOriginalOrder on a shuffled queue leaves getCurrentTrack
\* returning the track it returned before, which the scan for it finds.
C19_RestoreKeepsActiveTrack ==
    [][(lastOp' = "restoreOriginalOrder" /\ queue.shuffleEnabled)
          => /\ getCurrentTrack(queue) # RetNone
             /\ getCurrentTrack(queue') = getCurrentTrack(queue)]_vars

\* the cursor was on the third of three shuffled tracks and the restored
\* order has that track in another place
C19_Witness ==
    /\ lastOp = "restoreOriginalOrder"
    /\ lastWrite = "ok"
    /\ Len(Sequence) = 3
    /\ positionBefore = 2
    /\ Position # 2
\* C21: whenever advanceToNext returns None, playing is False afterwards, also
\* on an empty queue on which startPlayback had been called.
C21_NoneMeansStopped ==
    [][(lastOp' = "advanceToNext" /\ lastResult' = RetNone)
          => ~queue'.playbackActive]_vars

C23_StartAndPauseFrame ==
    [][/\ lastOp' = "startPlayback"
          => queue' = [queue EXCEPT
                         !.playbackActive = TRUE,
                         !.activeNode = IF ~queue.repeatEnabled
                                           /\ queue.activeNode = queue.tailNode
                                        THEN queue.headNode
                                        ELSE queue.activeNode]
       /\ lastOp' = "pausePlayback"
          => queue' = [queue EXCEPT !.playbackActive = FALSE]]_vars

\* startPlayback took the cursor from the tail of three tracks to the head
C23_Witness ==
    /\ lastOp = "startPlayback"
    /\ positionBefore = 2
    /\ Position = 0
    /\ Len(Sequence) = 3
    /\ ~queue.repeatEnabled
    /\ queue.playbackActive

\* C24: shuffleQueue on a queue that is already shuffled or holds at most one
\* track changes nothing of the queue and does not write the state file.
C24_ShuffleNoOp ==
    [][(lastOp' = "shuffleQueue" /\ (queue.shuffleEnabled \/ Len(Sequence) <= 1))
          => /\ queue' = queue
             /\ stateFile' = stateFile
             /\ lastWrite' = "none"]_vars

\* shuffleQueue on a shuffled queue of three whose last track is not yet in
\* the file left queue and file as they were
C24_Witness ==
    /\ lastOp = "shuffleQueue"
    /\ lastWrite = "none"
    /\ queue.shuffleEnabled
    /\ Len(Sequence) = 3
    /\ stateFile.exists
    /\ Len(stateFile.json.tracks) = 2

\* C25: restoreOriginalOrder on a queue that is not shuffled changes nothing
\* of the queue and does not write the state file.
C25_RestoreNoOp ==
    [][(lastOp' = "restoreOriginalOrder" /\ ~queue.shuffleEnabled)
          => /\ queue' = queue
             /\ stateFile' = stateFile
             /\ lastWrite' = "none"]_vars

\* restoreOriginalOrder on an unshuffled, playing queue of three whose last
\* track is not yet in the file left queue and file as they were
C25_Witness ==
    /\ lastOp = "restoreOriginalOrder"
    /\ lastWrite = "none"
    /\ ~queue.shuffleEnabled
    /\ queue.playbackActive
    /\ Len(Sequence) = 3
    /\ stateFile.exists
    /\ Len(stateFile.json.tracks) = 2
\* C26: addTrack(t) returning True makes t the new tail behind the tracks
\* already there, in their order, and the size one more; on an empty queue t
\* becomes head, tail and active, otherwise the cursor stays; t is appended to
\* originalSequence exactly when the queue is not shuffled; the three flags
\* stay as they were.
C26_AddTrackAppends ==
    [][(lastOp' = "addTrack" /\ lastResult' = RetBool(TRUE))
          => LET t == lastArg'[1]
             IN /\ TracksOf(queue') = Append(Sequence, t)
                /\ queue'.nodes[queue'.tailNode].trackData = t
                /\ getSize(queue') = getSize(queue) + 1
                /\ IF Len(Sequence) = 0
                   THEN /\ queue'.headNode = queue'.tailNode
                        /\ queue'.activeNode = queue'.headNode
                        /\ getCurrentTrack(queue') = RetTrack(t)
                   ELSE /\ ActivePosition(queue') = Position
                        /\ getCurrentTrack(queue') = getCurrentTrack(queue)
                /\ queue'.originalSequence =
                      IF queue.shuffleEnabled THEN queue.originalSequence
                      ELSE Append(queue.originalSequence, t)
                /\ queue'.shuffleEnabled = queue.shuffleEnabled
                /\ queue'.repeatEnabled = queue.repeatEnabled
                /\ queue'.playbackActive = queue.playbackActive]_vars

\* a third track joined a shuffled, playing pair whose cursor was on the second
C26_Witness ==
    /\ lastOp = "addTrack"
    /\ lastResult = RetBool(TRUE)
    /\ queue.shuffleEnabled
    /\ queue.playbackActive
    /\ Len(Sequence) = 3
    /\ Position = 1
    /\ Len(queue.originalSequence) = 2

\* the entries of l that equal no earlier entry, in order
FirstOccurrences(l) ==
    SelectPos(l, {i \in 1..Len(l) : \A j \in 1..(i - 1) : ~TrackEq(l[j], l[i])})

\* C27: loadTracks changes the queue as addTrack on each entry does: the
\* tracks already queued stay in place with the cursor on the same one, no two
\* equal tracks result, the tracks put behind them join originalSequence
\* exactly when the queue is not shuffled, the flags stay, and the state file
\* is written once it is done; after clearQueue
\* followed by loadTracks(L) the sequence is L without the entries equal to an
\* earlier one, the cursor is on the first track of L, the three flags are
\* False and the state file holds the in-memory state.
C27_LoadTracksLikeAdds ==
    [][/\ lastOp' = "loadTracks"
          => LET after == TracksOf(queue')
                 added == SubSeq(after, Len(Sequence) + 1, Len(after))
             IN /\ IsPrefix(Sequence, after)
                /\ NoEqualTracks(queue')
                /\ getSize(queue') = Len(after)
                /\ queue'.originalSequence =
                      IF queue.shuffleEnabled THEN queue.originalSequence
                      ELSE queue.originalSequence \o added
                /\ Len(Sequence) > 0 => ActivePosition(queue') = Position
                /\ (Len(Sequence) = 0 /\ Len(after) > 0) => ActivePosition(queue') = 0
                /\ queue'.shuffleEnabled = queue.shuffleEnabled
                /\ queue'.repeatEnabled = queue.repeatEnabled
                /\ queue'.playbackActive = queue.playbackActive
                /\ Persisted(queue', stateFile')
       /\ lastOp' = "queuePlaylist"
          => LET L == lastArg'[1]
             IN /\ TracksOf(queue') = FirstOccurrences(L)
                /\ queue'.originalSequence = FirstOccurrences(L)
                /\ getSize(queue') = Len(FirstOccurrences(L))
                /\ Len(L) > 0 => /\ getCurrentTrack(queue') = RetTrack(L[1])
                                 /\ ActivePosition(queue') = 0
                /\ Len(L) = 0 => queue'.activeNode = 0
                /\ ~queue'.shuffleEnabled
                /\ ~queue'.repeatEnabled
                /\ ~queue'.playbackActive
                /\ Persisted(queue', stateFile')]_vars

\* a shuffled, repeating queue was replaced by a playlist naming one track
\* twice, once with its artists as a list and once as that list's string
C27_Witness ==
    /\ lastOp = "queuePlaylist"
    /\ lastArg = << <<T3, T4>> >>
    /\ Len(origBefore) = 3
    /\ Sequence = <<T3>>
    /\ stateFile.exists
    /\ Len(stateFile.json.tracks) = 1
\* C28: toggleRepeat negates repeatEnabled and returns the value it now has,
\* changing nothing else of the queue; a second toggleRepeat right after the
\* first brings repeatEnabled back to what it was before the first.
C28_ToggleRepeatFlips ==
    [][lastOp' = "toggleRepeat"
          => /\ queue' = [queue EXCEPT !.repeatEnabled = ~queue.repeatEnabled]
             /\ lastResult' = RetBool(queue'.repeatEnabled)
             /\ TracksOf(queue') = Sequence
             /\ ActivePosition(queue') = Position
             /\ lastOp = "toggleRepeat" => queue'.repeatEnabled = ~lastResult.val]_vars

\* repeat, switched on earlier, was switched off on a shuffled, playing queue
C28_Witness ==
    /\ lastOp = "toggleRepeat"
    /\ lastResult = RetBool(FALSE)
    /\ ~queue.repeatEnabled
    /\ queue.shuffleEnabled
    /\ queue.playbackActive
    /\ Len(Sequence) = 2
\* the tracks of the nodes showQueue collected
Listed == [i \in 1..Len(printed.nodeList) |-> queue.nodes[printed.nodeList[i]].trackData]

\* C29: with an active node, the list showQueue assembles is the tracks behind
\* the active node in sequence order, then, only when repeat is on and fewer
\* than 10 tracks are behind it, the tracks from the head up to the active node
\* without it; the active track is not in the list and no track is in it twice.
C29_UpNextList ==
    (lastOp = "showQueue" /\ queue.activeNode # 0 /\ printed.lines = "queue")
        => LET following == SubSeq(Sequence, Position + 2, Len(Sequence))
               wrapped == IF queue.repeatEnabled /\ Len(following) < 10
                          THEN SubSeq(Sequence, 1, Position)
                          ELSE <<>>
           IN /\ Listed = following \o wrapped
              /\ \A i \in 1..Len(Listed) :
                    /\ printed.nodeList[i] # queue.activeNode
                    /\ ~TrackEq(Listed[i], Sequence[Position + 1])
              /\ \A i, j \in 1..Len(Listed) :
                    i # j => /\ printed.nodeList[i] # printed.nodeList[j]
                             /\ ~TrackEq(Listed[i], Listed[j])

\* eleven tracks, the cursor on the tenth, repeat on: one track behind the
\* cursor, then the nine before it
C29_Witness ==
    /\ lastOp = "showQueue"
    /\ Len(Sequence) = 11
    /\ Position = 9
    /\ queue.repeatEnabled
    /\ printed.lines = "queue"
    /\ Len(printed.nodeList) = 10
    /\ Listed[1] = Sequence[11]
    /\ Listed[2] = Sequence[1]

\* C30: showQueue on a non-empty queue whose list of tracks to show is empty
\* prints the no-more-tracks placeholder and a total of exactly 1 page.
C30_EmptyListOnePage ==
    (lastOp = "showQueue" /\ printed.lines = "queue" /\ Len(printed.nodeList) = 0)
        => /\ printed.placeholder
           /\ printed.totalPages = 1
\* C31: getCurrentPageNumber returns 1 without an active node and
\* floor(p / 10) + 1 with the active node at zero-based position p, and on a
\* non-empty queue its result lies between 1 and ceil(size / 10).
C31_PageNumberInRange ==
    lastOp = "getCurrentPageNumber"
        => /\ queue.activeNode = 0 => lastResult = RetInt(1)
           /\ Position >= 0 => lastResult = RetInt((Position \div 10) + 1)
           /\ Len(Sequence) > 0 =>
                 /\ lastResult.val >= 1
                 /\ lastResult.val <= (Len(Sequence) + 9) \div 10

\* ten tracks with the cursor on the last: page 1, the only page
C31_Witness ==
    /\ lastOp = "getCurrentPageNumber"
    /\ Len(Sequence) = 10
    /\ Position = 9
    /\ lastResult = RetInt(1)
\* the methods that only read the queue
QueryOps ==
    {"getCurrentTrack", "getSize", "isPlaying", "isShuffled", "isRepeatOn",
     "getTotalDuration", "getCurrentPageNumber", "showQueue"}

\* C32: a call of getCurrentTrack, getSize, isPlaying, isShuffled, isRepeatOn,
\* getTotalDuration, getCurrentPageNumber or showQueue leaves the queue in
\* memory (sequence, active node, flags, originalSequence) and the state file
\* as they were.
C32_QueriesChangeNothing ==
    [][lastOp' \in QueryOps
          => /\ queue' = queue
             /\ TracksOf(queue') = Sequence
             /\ ActivePosition(queue') = Position
             /\ stateFile' = stateFile]_vars

\* showQueue ran on a shuffled queue of over an hour whose last track was added
\* without a save, so that the state file is behind the queue
C32_Witness ==
    /\ lastOp = "showQueue"
    /\ printed.lines = "queue"
    /\ printed.duration = "1 hr 7 min"
    /\ queue.shuffleEnabled
    /\ Len(Sequence) = 3
    /\ stateFile.exists
    /\ ~Persisted(queue, stateFile)
\* C33: while shuffleEnabled is False the sequence of the queue is
\* originalSequence, track by track.
C33_UnshuffledIsOriginal ==
    ~queue.shuffleEnabled => Sequence = queue.originalSequence

\* restoreOriginalOrder put back a queue that had taken a third track while it
\* was shuffled
C33_Witness ==
    /\ lastOp = "restoreOriginalOrder"
    /\ ~queue.shuffleEnabled
    /\ Len(origBefore) = 2
    /\ Len(Sequence) = 3
    /\ Sequence = queue.originalSequence
    /\ stateFile.exists
\* the tracks of a sequence as a set
TrackSet(s) == {s[i] : i \in 1..Len(s)}

\* C34: shuffleQueue and restoreOriginalOrder leave the set of tracks in the
\* sequence, the number of nodes and getSize as they found them.
C34_OrderingKeepsTracks ==
    [][lastOp' \in {"shuffleQueue", "restoreOriginalOrder"}
          => /\ TrackSet(TracksOf(queue')) = TrackSet(Sequence)
             /\ Len(TracksOf(queue')) = Len(Sequence)
             /\ getSize(queue') = getSize(queue)]_vars

\* restoreOriginalOrder rebuilt a queue of three tracks, one of them added
\* while it was shuffled, from a different order
C34_Witness ==
    /\ lastOp = "restoreOriginalOrder"
    /\ lastWrite = "ok"
    /\ Len(origBefore) = 2
    /\ getSize(queue) = 3
    /\ TrackSet(Sequence) = {T1, T2, T3}
    /\ queue.repeatEnabled

\* C36: shuffleQueue and restoreOriginalOrder leave repeatEnabled and
\* playbackActive alone; advanceToNext and rewindToPrevious leave the order of
\* the sequence, originalSequence, shuffleEnabled and repeatEnabled alone.
C36_FlagsApartFromOrder ==
    [][/\ lastOp' \in {"shuffleQueue", "restoreOriginalOrder"}
          => /\ queue'.repeatEnabled = queue.repeatEnabled
             /\ queue'.playbackActive = queue.playbackActive
       /\ lastOp' \in {"advanceToNext", "rewindToPrevious"}
          => /\ TracksOf(queue') = Sequence
             /\ queue'.originalSequence = queue.originalSequence
             /\ queue'.shuffleEnabled = queue.shuffleEnabled
             /\ queue'.repeatEnabled = queue.repeatEnabled]_vars

\* rewindToPrevious jumped from the head to the tail of a shuffled, repeating,
\* playing queue
C36_Witness ==
    /\ lastOp = "rewindToPrevious"
    /\ positionBefore = 0
    /\ Position = 2
    /\ queue.shuffleEnabled
    /\ queue.repeatEnabled
    /\ queue.playbackActive
    /\ Len(queue.originalSequence) = 3
\* C35: after loadQueueState has returned True the queue in memory is the one
\* the state file describes, whatever it held before: saving it again would
\* write the same document, and with a current_index of -1 in the file there
\* is no active track.
C35_LoadReplacesState ==
    [][(lastOp' = "loadQueueState" /\ lastResult' = RetBool(TRUE))
          => /\ Persisted(queue', stateFile)
             /\ getSize(queue') = Len(stateFile.json.tracks)
             /\ stateFile.json.current_index = -1
                   => /\ queue'.activeNode = 0
                      /\ getCurrentTrack(queue') = RetNone]_vars
\* C37: with repeat on and N >= 1 tracks, a call of advanceToNext returns a
\* track, and the k-th call of an unbroken run of them leaves the cursor k
\* places past where the run began, counted round the sequence: the first N
\* calls reach N different tracks and the N-th is back on the starting one.
C37_RepeatGoesRound ==
    (/\ lastOp = "advanceToNext"
     /\ queue.repeatEnabled
     /\ Len(Sequence) >= 1
     /\ runLen < RunCap)
        => /\ lastResult # RetNone
           /\ Position = (runStart - 1 + runLen) % Len(Sequence)
           /\ lastResult = RetTrack(Sequence[Position + 1])
           /\ runLen = Len(Sequence) => Position = runStart - 1

\* three calls in a row took the cursor from the middle of three tracks round
\* to the middle again
C37_Witness ==
    /\ lastOp = "advanceToNext"
    /\ queue.repeatEnabled
    /\ Len(Sequence) = 3
    /\ runStart = 2
    /\ runLen = 3
    /\ Position = 1

\* C38: with repeat off and N >= 1 tracks, the k-th call of an unbroken run of
\* advanceToNext calls returns the next track while there is one and None from
\* then on, which is by the N-th call; every call that returns None leaves the
\* cursor on the tail and playing False.
C38_RunEndsInNone ==
    (/\ lastOp = "advanceToNext"
     /\ ~queue.repeatEnabled
     /\ Len(Sequence) >= 1
     /\ runLen < RunCap)
        => IF runStart - 1 + runLen <= Len(Sequence) - 1
           THEN /\ Position = runStart - 1 + runLen
                /\ lastResult = RetTrack(Sequence[Position + 1])
           ELSE /\ runLen <= RunCap - 1
                /\ lastResult = RetNone
                /\ Position = Len(Sequence) - 1
                /\ queue.activeNode = queue.tailNode
                /\ ~queue.playbackActive

\* the fifth call in a row on three tracks, started at the head: None for the
\* third time
C38_Witness ==
    /\ lastOp = "advanceToNext"
    /\ ~queue.repeatEnabled
    /\ Len(Sequence) = 3
    /\ runStart = 1
    /\ runLen = 5
    /\ lastResult = RetNone
    /\ Position = 2
    /\ ~queue.playbackActive

\* C39: rewindToPrevious called right after an advanceToNext that returned a
\* track puts the cursor back on the track it was on before the advance and
\* returns that track.
C39_RewindUndoesAdvance ==
    [][(/\ lastOp = "advanceToNext"
        /\ lastResult.kind = "track"
        /\ positionBefore >= 0
        /\ lastOp' = "rewindToPrevious")
          => /\ ActivePosition(queue') = positionBefore
             /\ getCurrentTrack(queue') = RetTrack(Sequence[positionBefore + 1])
             /\ lastResult' = RetTrack(Sequence[positionBefore + 1])]_vars

\* with repeat on, the advance had gone from the tail of three tracks to the
\* head and the rewind went back to the tail
C39_Witness ==
    /\ rewoundAdvance
    /\ lastOp = "rewindToPrevious"
    /\ queue.repeatEnabled
    /\ Len(Sequence) = 3
    /\ positionBefore = 0
    /\ Position = 2
\* C40: getSize is the number of nodes met from the head, in every state:
\* after addTrack, shuffleQueue, restoreOriginalOrder and clearQueue, and
\* after a loadQueueState that stopped at an unreadable entry of the tracks
\* list.
C40_SizeIsNodeCount ==
    /\ SizeIsNodeCount(queue)
    /\ getSize(queue) = Len(Sequence)

\* loadQueueState gave up at the second of two track entries and left one node
C40_Witness ==
    /\ lastOp = "loadQueueState"
    /\ lastResult = RetBool(FALSE)
    /\ stateFile.exists
    /\ "json" \in DOMAIN stateFile
    /\ "tracks" \in DOMAIN stateFile.json
    /\ Len(stateFile.json.tracks) = 2
    /\ Len(Sequence) = 1
    /\ getSize(queue) = 1
====
